---- MODULE Spec2Model ----
(***************************************************************************)
(* Fantasy-football snake draft: Player/Team entities (models.py), the     *)
(* Greedy and Regret selection strategies (algorithms.py) and the draft    *)
(* engine (draft_simulator.py).                                            *)
(*                                                                         *)
(* Four specifications share the module:                                   *)
(*   SpecTeam     - one Team driven by add_player / get_needs calls;       *)
(*   SpecOrder    - generate_snake_draft_order applied to drawn inputs,    *)
(*                  then _calculate_picks_until_next on the result;        *)
(*   SpecStrategy - one strategy instance called method by method;         *)
(*   Spec         - simulate_draft, one action per loop iteration.         *)
(*                                                                         *)
(* Player names are numbers (a name is only ever compared for equality),   *)
(* actual_points are integers, and Player.team (the pro-team label, read   *)
(* only by __repr__) is left out of the record.                            *)
(***************************************************************************)
EXTENDS Integers, Sequences, FiniteSets, TLC

VARIABLES
    team,         \* SpecTeam: the Team object under test
    added,        \* SpecTeam: history of add_player calls, <<player, position>>
    needs_out,    \* SpecTeam: value returned by the last get_needs() call
    last_call,    \* SpecTeam: name of the last method called on team
    needs_calls,  \* SpecTeam: get_needs() calls since the last add_player
    o_num_teams,  \* SpecOrder: argument num_teams
    o_num_rounds, \* SpecOrder: argument num_rounds
    o_order,      \* SpecOrder: the returned draft_order
    o_pc,         \* SpecOrder: "call" before the call, "done" after it
    o_pick,       \* SpecOrder: argument current_pick of the last calculation
    o_team,       \* SpecOrder: argument team_id of the last calculation
    o_until,      \* SpecOrder: _calculate_picks_until_next's result, 0 before
    s_class,      \* SpecStrategy: the strategy class of the instance
    s_pool,       \* SpecStrategy: the pool given to the constructor
    s_alg,        \* SpecStrategy: the strategy instance
    s_team,       \* SpecStrategy: argument team of the last call
    s_call,       \* SpecStrategy: name of the last method called
    s_arg,        \* SpecStrategy: the last call's other arguments
    s_before,     \* SpecStrategy: the instance as it was when called
    s_value,      \* SpecStrategy: the number returned by the last call
    s_pick,       \* SpecStrategy: the player returned by draft_player
    s_team_after, \* SpecStrategy: the team object after the last call
    s_other,      \* SpecStrategy: another instance built over the same pool
    players,          \* Spec: the season's player pool (create_players_for_year)
    algorithm_class,  \* Spec: the strategy class passed to simulate_draft
    teams,            \* Spec: teams[team_id], the Team objects
    team_algorithms,  \* Spec: team_algorithms[team_id], the strategy instances
    draft_order,      \* Spec: the generated pick sequence
    globally_drafted, \* Spec: names drafted so far, over all teams
    pick_num,         \* Spec: 0-based index of the next pick slot
    pc,               \* Spec: "start", "loop", "done" or "returned_none"
    last,             \* Spec: what the last processed pick slot did
    shared            \* Spec: the same draft run with one shared instance

teamVars == <<team, added, needs_out, last_call, needs_calls>>

orderVars == <<o_num_teams, o_num_rounds, o_order, o_pc, o_pick, o_team,
               o_until>>

strategyVars == <<s_class, s_pool, s_alg, s_team, s_call, s_arg, s_before,
                  s_value, s_pick, s_team_after, s_other>>

draftVars == <<players, algorithm_class, teams, team_algorithms, draft_order,
               globally_drafted, pick_num, pc, last, shared>>

vars == <<team, added, needs_out, last_call, needs_calls,
          o_num_teams, o_num_rounds, o_order, o_pc, o_pick, o_team, o_until,
          s_class, s_pool, s_alg, s_team, s_call, s_arg, s_before, s_value,
          s_pick, s_team_after, s_other,
          players, algorithm_class, teams, team_algorithms, draft_order,
          globally_drafted, pick_num, pc, last, shared>>

----------------------------------------------------------------------------
(* models.py *)

\* the value None, for an optional position argument or slot
None == "None"

\* Player.__init__
Player(name, position, adp_rank, auction_value, actual_points, bye_week) ==
    [name |-> name, position |-> position, adp_rank |-> adp_rank,
     auction_value |-> auction_value, actual_points |-> actual_points,
     bye_week |-> bye_week]

\* the value None where an Optional[Player] is expected
NoPlayer == Player(0, None, 0, 0, 0, 0)

\* the arguments of a strategy method call, before any call
NoArg == [position |-> None, player |-> NoPlayer, picks_until_next |-> 0]

\* the record of the last processed pick slot, before any slot was processed
NoLast ==
    [slot |-> 0, team_id |-> 0, picks_until_next |-> 0, needs |-> <<>>,
     global_before |-> {}, drafted_at_call |-> {}, returned |-> NoPlayer,
     player |-> NoPlayer, position |-> None, broke |-> FALSE,
     roster |-> [s \in {} |-> <<>>], scored |-> {}, penalized |-> {}]

\* DRAFT_CONFIG['roster_spots'], in dict (insertion) order
SlotOrder == <<"QB", "RB", "WR", "TE", "FLEX", "K">>

Slots == {SlotOrder[i] : i \in 1..Len(SlotOrder)}

roster_spots ==
    [s \in Slots |-> CASE s = "RB" -> 2 [] s = "WR" -> 2 [] OTHER -> 1]

\* the literal ['RB', 'WR', 'TE'] of the FLEX checks
FlexEligible == {"RB", "WR", "TE"}

\* DRAFT_CONFIG['total_picks']
total_picks == 8

\* Team.__init__
NewTeam(team_id) ==
    [team_id |-> team_id,
     roster |-> [s \in Slots |-> <<>>],
     total_points |-> 0,
     draft_picks |-> <<>>]

\* the roster list that Team.add_player appends to, None when it appends to
\* no list at all
AddPlayerSlot(player, position) ==
    LET pos == IF position = None THEN player.position ELSE position
    IN  IF pos = "FLEX" /\ player.position \in FlexEligible THEN "FLEX"
        ELSE IF pos \in Slots THEN pos
        ELSE IF player.position \in Slots THEN player.position
        ELSE IF player.position \in FlexEligible THEN "FLEX"
        ELSE None

\* mutant of add_player: the points are only counted for a stored player
add_player_stored_only(t, player, position) ==
    LET s == AddPlayerSlot(player, position)
    IN  IF s = None
        THEN [t EXCEPT !.draft_picks = Append(@, player)]
        ELSE [t EXCEPT !.roster[s] = Append(@, player),
                       !.total_points = @ + player.actual_points,
                       !.draft_picks = Append(@, player)]

\* mutant of add_player: the pick log is kept newest first
add_player_prepend(t, player, position) ==
    LET s == AddPlayerSlot(player, position)
        r == IF s = None THEN t.roster
             ELSE [t.roster EXCEPT ![s] = Append(@, player)]
    IN  [t EXCEPT !.roster = r,
                  !.total_points = @ + player.actual_points,
                  !.draft_picks = <<player>> \o @]

\* Team.add_player
add_player(t, player, position) ==
    LET s == AddPlayerSlot(player, position)
        r == IF s = None THEN t.roster
             ELSE [t.roster EXCEPT ![s] = Append(@, player)]
    IN  [t EXCEPT !.roster = r,
                  !.total_points = @ + player.actual_points,
                  !.draft_picks = Append(@, player)]

\* mutant of get_needs: a slot at capacity is still reported
get_needs_le(t) ==
    SelectSeq(SlotOrder, LAMBDA pos : Len(t.roster[pos]) <= roster_spots[pos])

\* mutant of get_needs: every slot is compared with a capacity of 1
get_needs_cap1(t) ==
    SelectSeq(SlotOrder, LAMBDA pos : Len(t.roster[pos]) < 1)

\* Team.get_needs
get_needs(t) ==
    SelectSeq(SlotOrder, LAMBDA pos : Len(t.roster[pos]) < roster_spots[pos])

\* Team.is_complete
is_complete(t) == Len(get_needs(t)) = 0

\* the elements of a list
Range(seq) == {seq[i] : i \in 1..Len(seq)}

\* sum(p.actual_points for p in seq)
RECURSIVE SumPoints(_)
SumPoints(seq) ==
    IF seq = <<>> THEN 0
    ELSE SumPoints(SubSeq(seq, 1, Len(seq) - 1)) + seq[Len(seq)].actual_points

\* sum of actual_points over all roster entries of a team
RECURSIVE RosterPointsUpTo(_, _)
RosterPointsUpTo(t, k) ==
    IF k = 0 THEN 0
    ELSE RosterPointsUpTo(t, k - 1) + SumPoints(t.roster[SlotOrder[k]])

RosterPoints(t) == RosterPointsUpTo(t, Len(SlotOrder))

----------------------------------------------------------------------------
(* SpecTeam: a Team driven through its public methods *)

\* free add_player calls allowed after leaving the scripted fill
MaxFreeAdds == 2

\* consecutive get_needs calls that are told apart
MaxNeedsCalls == 2

\* test_roster_completion: the (player position, roster position) fill list
FillPositions ==
    << <<"QB", "QB">>, <<"RB", "RB">>, <<"RB", "RB">>, <<"WR", "WR">>,
       <<"WR", "WR">>, <<"TE", "TE">>, <<"RB", "FLEX">>, <<"K", "K">> >>

FillScript ==
    [i \in 1..Len(FillPositions) |->
        <<Player(10 + i, FillPositions[i][1], i, 20, 100, 0),
          FillPositions[i][2]>>]

\* players and position arguments of the free add_player calls
TeamPlayers ==
    {Player(1, "QB", 1, 40, 3, 0), Player(2, "RB", 2, 50, 2, 0),
     Player(3, "DEF", 3, 5, 1, 0)}

PositionArgs == {None, "FLEX", "K", "BENCH"}

\* length of the longest prefix of the call history that follows FillScript
RECURSIVE ScriptPrefix(_, _)
ScriptPrefix(h, k) ==
    IF k < Len(h) /\ k < Len(FillScript) /\ h[k + 1] = FillScript[k + 1]
    THEN ScriptPrefix(h, k + 1)
    ELSE k

AddInputs ==
    (IF ScriptPrefix(added, 0) = Len(added) /\ Len(added) < Len(FillScript)
     THEN {FillScript[Len(added) + 1]} ELSE {})
    \cup
    (IF Len(added) - ScriptPrefix(added, 0) < MaxFreeAdds
     THEN TeamPlayers \X PositionArgs ELSE {})

\* the variables of SpecTeam, at rest in the other specifications
TeamIdle ==
    /\ team = NewTeam(1)
    /\ added = <<>>
    /\ needs_out = <<>>
    /\ last_call = "__init__"
    /\ needs_calls = 0

\* the variables of SpecOrder, at rest in the other specifications
OrderIdle ==
    /\ o_num_teams = 0
    /\ o_num_rounds = 0
    /\ o_order = <<>>
    /\ o_pc = "idle"
    /\ o_pick = 0
    /\ o_team = 0
    /\ o_until = 0

\* the variables of Spec, at rest in the other specifications
\* the shared-instance run before simulate_draft has built anything
NoShared ==
    [alg |-> [available_players |-> <<>>, drafted_players |-> {}],
     teams |-> <<>>, globally_drafted |-> {}, picks |-> <<>>,
     stopped |-> FALSE]

DraftIdle ==
    /\ players = <<>>
    /\ algorithm_class = "Greedy"
    /\ teams = <<>>
    /\ team_algorithms = <<>>
    /\ draft_order = <<>>
    /\ globally_drafted = {}
    /\ pick_num = 0
    /\ pc = "idle"
    /\ last = NoLast
    /\ shared = NoShared

\* the variables of SpecStrategy, at rest in the other specifications
StrategyIdle ==
    /\ s_class = "Greedy"
    /\ s_pool = <<>>
    /\ s_alg = [available_players |-> <<>>, drafted_players |-> {}]
    /\ s_team = NewTeam(1)
    /\ s_call = "idle"
    /\ s_arg = NoArg
    /\ s_before = [available_players |-> <<>>, drafted_players |-> {}]
    /\ s_value = <<0, 1>>
    /\ s_pick = NoPlayer
    /\ s_team_after = NewTeam(1)
    /\ s_other = [available_players |-> <<>>, drafted_players |-> {}]

InitTeam == TeamIdle /\ OrderIdle /\ StrategyIdle /\ DraftIdle

\* mutant of TeamGetNeeds: get_needs consumes the first QB it inspects
TeamGetNeedsPop ==
    /\ needs_calls < MaxNeedsCalls
    /\ needs_out' = get_needs(team)
    /\ team' = [team EXCEPT !.roster["QB"] = IF @ = <<>> THEN @ ELSE Tail(@)]
    /\ last_call' = "get_needs"
    /\ needs_calls' = needs_calls + 1
    /\ UNCHANGED <<added, orderVars, strategyVars, draftVars>>

\* team.add_player(player, position)
TeamAddPlayer ==
    \E inp \in AddInputs :
        /\ team' = add_player(team, inp[1], inp[2])
        /\ added' = Append(added, inp)
        /\ last_call' = "add_player"
        /\ needs_calls' = 0
        /\ UNCHANGED <<needs_out, orderVars, strategyVars, draftVars>>

\* needs = team.get_needs()
TeamGetNeeds ==
    /\ needs_calls < MaxNeedsCalls
    /\ needs_out' = get_needs(team)
    /\ last_call' = "get_needs"
    /\ needs_calls' = needs_calls + 1
    /\ UNCHANGED <<team, added, orderVars, strategyVars, draftVars>>

NextTeam == TeamAddPlayer \/ TeamGetNeeds

SpecTeam == InitTeam /\ [][NextTeam]_vars

\* the players passed to add_player so far, in call order
AddedPlayers == [i \in 1..Len(added) |-> added[i][1]]

\* C2: after any sequence of add_player calls, total_points equals the sum of
\* actual_points over the players stored in the roster slots.
C2_TotalPointsMatchRoster == team.total_points = RosterPoints(team)

\* C3: add_player is additive: after N calls on a fresh team total_points is
\* the sum of the N players' actual_points and draft_picks lists the N players
\* in call order.
C3_AddPlayerAdditive ==
    /\ team.total_points = SumPoints(AddedPlayers)
    /\ Len(team.draft_picks) = Len(added)
    /\ team.draft_picks = AddedPlayers

C3_Witness ==
    /\ Len(added) >= 3
    /\ added[1][1] # added[2][1]
    /\ team.total_points > 0
    /\ \E i \in 1..Len(added) : AddPlayerSlot(added[i][1], added[i][2]) = None

\* C8: is_complete() is true exactly when get_needs() is empty, that is
\* exactly when every slot holds at least its configured capacity.
C8_CompleteIffNoNeeds ==
    /\ is_complete(team) <=> (get_needs(team) = <<>>)
    /\ is_complete(team) <=>
           \A s \in Slots : Len(team.roster[s]) >= roster_spots[s]
    /\ (last_call = "get_needs" /\ needs_out = <<>>) => is_complete(team)

C8_Witness ==
    /\ is_complete(team)
    /\ last_call = "get_needs"
    /\ needs_out = <<>>
    /\ Len(team.roster["RB"]) = 2

\* a team one RB short of its capacity: is_complete() must be false
C8_WitnessIncomplete ==
    /\ ~is_complete(team)
    /\ Len(team.roster["RB"]) = 1
    /\ Len(team.roster["QB"]) = 1

\* C9: get_needs() contains a slot exactly when the slot holds fewer players
\* than its capacity; a fresh team needs all six slots.
C9_NeedsBelowCapacity ==
    /\ last_call = "get_needs" =>
           \A s \in Slots :
               (s \in Range(needs_out)) <=>
                   (Len(team.roster[s]) < roster_spots[s])
    /\ (last_call = "get_needs" /\ added = <<>>) => needs_out = SlotOrder

C9_Witness ==
    /\ last_call = "get_needs"
    /\ Len(team.roster["QB"]) = 1 /\ "QB" \notin Range(needs_out)
    /\ Len(team.roster["RB"]) = 1 /\ "RB" \in Range(needs_out)

----------------------------------------------------------------------------
(* generate_snake_draft_order and the bounds of SpecOrder *)

MaxOrderTeams == 6

MaxOrderRounds == 8

\* list(range(1, num_teams + 1))
RangeUp(n) == [k \in 1..n |-> k]

\* list(range(num_teams, 0, -1))
RangeDown(n) == [k \in 1..n |-> n - k + 1]

\* mutant of generate_snake_draft_order: every round runs 1..N
RECURSIVE generate_linear_draft_order(_, _)
generate_linear_draft_order(num_teams, num_rounds) ==
    IF num_rounds <= 0 THEN <<>>
    ELSE generate_linear_draft_order(num_teams, num_rounds - 1)
             \o RangeUp(num_teams)

\* DraftSimulator.generate_snake_draft_order
RECURSIVE generate_snake_draft_order(_, _)
generate_snake_draft_order(num_teams, num_rounds) ==
    IF num_rounds <= 0 THEN <<>>
    ELSE LET round_num == num_rounds - 1
         IN  generate_snake_draft_order(num_teams, round_num)
                 \o (IF round_num % 2 = 0 THEN RangeUp(num_teams)
                                          ELSE RangeDown(num_teams))

----------------------------------------------------------------------------
(* algorithms.py *)

Min(a, b) == IF a <= b THEN a ELSE b

Max(a, b) == IF a >= b THEN a ELSE b

\* the smallest of a set of list indices, 0 when the set is empty: the
\* element at which a "for player in seq" loop with a test returns
FirstIndex(indices) ==
    IF indices = {} THEN 0
    ELSE CHOOSE i \in indices : \A j \in indices : i <= j

\* the copy both strategy constructors make of a pool entry: bye_week is not
\* passed on and takes the default 0 of Player.__init__
StrategyCopy(p) ==
    Player(p.name, p.position, p.adp_rank, p.auction_value,
           p.actual_points, 0)

\* list.sort(key=lambda p: p.adp_rank): stable, ascending
RECURSIVE SortByADP(_)
SortByADP(seq) ==
    IF seq = <<>> THEN <<>>
    ELSE LET n == Len(seq)
             front == SortByADP(SubSeq(seq, 1, n - 1))
             x == seq[n]
             k == Cardinality({i \in 1..(n - 1) :
                                  front[i].adp_rank <= x.adp_rank})
         IN  SubSeq(front, 1, k) \o <<x>> \o SubSeq(front, k + 1, n - 1)

\* a position fills a need: a direct need, or RB/WR/TE while FLEX is a need
FillsNeed(position, needs) ==
    \/ position \in Range(needs)
    \/ "FLEX" \in Range(needs) /\ position \in FlexEligible

\* mutant of GreedyInit: the copies stay in input order
GreedyInitUnsorted(pool) ==
    [available_players |-> [i \in 1..Len(pool) |-> StrategyCopy(pool[i])],
     drafted_players |-> {}]

\* GreedyDraftAlgorithm.__init__
GreedyInit(pool) ==
    [available_players |-> SortByADP([i \in 1..Len(pool) |->
                                          StrategyCopy(pool[i])]),
     drafted_players |-> {}]

\* mutant of GreedyPick: the best undrafted player, whatever the needs
GreedyPickBestAvailable(alg, t) ==
    LET needs == get_needs(t)
        avail == alg.available_players
        f == FirstIndex({i \in 1..Len(avail) :
                            avail[i].name \notin alg.drafted_players})
    IN  IF needs = <<>> THEN NoPlayer
        ELSE IF f # 0 THEN avail[f]
        ELSE NoPlayer

\* mutant of GreedyPick: the fallback takes the last undrafted player
GreedyPickFallbackLast(alg, t) ==
    LET needs == get_needs(t)
        avail == alg.available_players
        m == FirstIndex({i \in 1..Len(avail) :
                            /\ avail[i].name \notin alg.drafted_players
                            /\ FillsNeed(avail[i].position, needs)})
        f == FirstIndex({i \in 1..Len(avail) :
                            /\ avail[i].name \notin alg.drafted_players
                            /\ \A j \in (i + 1)..Len(avail) :
                                   avail[j].name \in alg.drafted_players})
    IN  IF needs = <<>> THEN NoPlayer
        ELSE IF m # 0 THEN avail[m]
        ELSE IF f # 0 THEN avail[f]
        ELSE NoPlayer

\* mutant of GreedyPick: no fallback to the best player of any position
GreedyPickNoFallback(alg, t) ==
    LET needs == get_needs(t)
        avail == alg.available_players
        m == FirstIndex({i \in 1..Len(avail) :
                            /\ avail[i].name \notin alg.drafted_players
                            /\ FillsNeed(avail[i].position, needs)})
    IN  IF needs = <<>> THEN NoPlayer
        ELSE IF m # 0 THEN avail[m]
        ELSE NoPlayer

\* GreedyDraftAlgorithm.draft_player: the player returned (NoPlayer for None)
GreedyPick(alg, t) ==
    LET needs == get_needs(t)
        avail == alg.available_players
        m == FirstIndex({i \in 1..Len(avail) :
                            /\ avail[i].name \notin alg.drafted_players
                            /\ FillsNeed(avail[i].position, needs)})
        f == FirstIndex({i \in 1..Len(avail) :
                            avail[i].name \notin alg.drafted_players})
    IN  IF needs = <<>> THEN NoPlayer
        ELSE IF m # 0 THEN avail[m]
        ELSE IF f # 0 THEN avail[f]
        ELSE NoPlayer

\* max(list, default=d)
RECURSIVE MaxOf(_, _)
MaxOf(seq, d) ==
    IF seq = <<>> THEN d
    ELSE IF Len(seq) = 1 THEN seq[1]
    ELSE Max(MaxOf(SubSeq(seq, 1, Len(seq) - 1), d), seq[Len(seq)])

\* sorted(list of numbers), ascending
RECURSIVE SortAsc(_)
SortAsc(seq) ==
    IF seq = <<>> THEN <<>>
    ELSE LET n == Len(seq)
             front == SortAsc(SubSeq(seq, 1, n - 1))
             x == seq[n]
             k == Cardinality({i \in 1..(n - 1) : front[i] <= x})
         IN  SubSeq(front, 1, k) \o <<x>> \o SubSeq(front, k + 1, n - 1)

\* RegretDraftAlgorithm.__init__ and _cache_max_values (position_counts is
\* written there and never read)
RegretInit(pool) ==
    LET all == [i \in 1..Len(pool) |-> StrategyCopy(pool[i])]
    IN  [all_players |-> all,
         drafted_players |-> {},
         max_auction |-> MaxOf([i \in 1..Len(all) |-> all[i].auction_value],
                               1)]

\* mutant of get_available_players: the drafted names are not left out
get_available_players_all(alg) == alg.all_players

\* RegretDraftAlgorithm.get_available_players
get_available_players(alg) ==
    SelectSeq(alg.all_players,
              LAMBDA p : p.name \notin alg.drafted_players)

\* auction values of the undrafted players at a position, in pool order
AvailableValues(alg, position) ==
    LET at == SelectSeq(alg.all_players,
                        LAMBDA p : p.position = position
                                   /\ p.name \notin alg.drafted_players)
    IN  [i \in 1..Len(at) |-> at[i].auction_value]

\* numbers are exact fractions <<numerator, denominator>>, numerator >= 0,
\* denominator > 0.  FracCmp(a, b, c, d) is -1, 0 or 1 as a/b is less than,
\* equal to or greater than c/d; it compares integer parts and then the
\* inverted remainders, so that no product is formed
RECURSIVE FracCmp(_, _, _, _)
FracCmp(a, b, c, d) ==
    LET qa == a \div b
        qc == c \div d
        ra == a % b
        rc == c % d
    IN  IF qa # qc THEN (IF qa < qc THEN -1 ELSE 1)
        ELSE IF ra = 0 /\ rc = 0 THEN 0
        ELSE IF ra = 0 THEN -1
        ELSE IF rc = 0 THEN 1
        ELSE FracCmp(d, rc, b, ra)

FracLE(a, b) == FracCmp(a[1], a[2], b[1], b[2]) <= 0

FracLT(a, b) == FracCmp(a[1], a[2], b[1], b[2]) < 0

FracEQ(a, b) == FracCmp(a[1], a[2], b[1], b[2]) = 0

\* len([v for v in values if v >= np.percentile(values, 75)]), with the
\* default linear interpolation: the threshold lies at index 0.75*(n-1) of
\* the ascending values; both sides are compared multiplied by 4
QualityPlayers(values) ==
    LET n == Len(values)
        asc == SortAsc(values)
        lo == (3 * (n - 1)) \div 4
        g == (3 * (n - 1)) % 4
        hi == Min(lo + 1, n - 1)
        threshold4 == 4 * asc[lo + 1] + g * (asc[hi + 1] - asc[lo + 1])
    IN  Cardinality({i \in 1..n : 4 * values[i] >= threshold4})

\* mutant of calculate_positional_scarcity: no floor at 0.1
calculate_positional_scarcity_unfloored(alg, position) ==
    LET values == AvailableValues(alg, position)
        quality_players == QualityPlayers(values)
        scarcity == <<1, Max(1, quality_players)>>
    IN  IF Len(values) = 0 THEN <<0, 1>>
        ELSE IF Len(values) = 1 THEN <<1, 1>>
        ELSE IF FracLE(<<1, 1>>, scarcity) THEN <<1, 1>> ELSE scarcity

\* RegretDraftAlgorithm.calculate_positional_scarcity
calculate_positional_scarcity(alg, position) ==
    LET values == AvailableValues(alg, position)
        quality_players == QualityPlayers(values)
        inv == <<1, Max(1, quality_players)>>
        scarcity == IF FracLE(inv, <<1, 10>>) THEN <<1, 10>> ELSE inv
    IN  IF Len(values) = 0 THEN <<0, 1>>
        ELSE IF Len(values) = 1 THEN <<1, 1>>
        ELSE IF FracLE(<<1, 1>>, scarcity) THEN <<1, 1>> ELSE scarcity

\* mutant of calculate_value_dropoff: the ratio is not capped at 1.0
calculate_value_dropoff_uncapped(alg, position) ==
    LET values == AvailableValues(alg, position)
        asc == SortAsc(values)
        best_value == asc[Len(asc)]
        second_best_value == asc[Len(asc) - 1]
        dropoff == Max(0, best_value - second_best_value)
    IN  IF Len(values) < 2 THEN <<0, 1>>
        ELSE IF best_value <= 0 THEN <<0, 1>>
        ELSE <<dropoff, best_value>>

\* RegretDraftAlgorithm.calculate_value_dropoff
calculate_value_dropoff(alg, position) ==
    LET values == AvailableValues(alg, position)
        asc == SortAsc(values)
        best_value == asc[Len(asc)]
        second_best_value == asc[Len(asc) - 1]
        dropoff == Max(0, best_value - second_best_value)
    IN  IF Len(values) < 2 THEN <<0, 1>>
        ELSE IF best_value <= 0 THEN <<0, 1>>
        ELSE IF dropoff >= best_value THEN <<1, 1>>
        ELSE <<dropoff, best_value>>

\* RegretDraftAlgorithm.calculate_pick_urgency
calculate_pick_urgency(picks_until_next) ==
    <<Min(19, Max(1, picks_until_next)), 19>>

\* the bye weeks of every player on the team's roster
TeamByeWeeks(t) ==
    UNION {{t.roster[s][i].bye_week : i \in 1..Len(t.roster[s])} : s \in Slots}

\* "hasattr(player, 'bye_week') and player.bye_week in team_bye_weeks": the
\* 0.05 bye penalty is subtracted from the player's score
ByePenaltyApplies(player, t) == player.bye_week \in TeamByeWeeks(t)

\* mutant of calculate_regret_score: the result is not floored at 0
calculate_regret_score_unfloored(alg, player, t, picks_until_next) ==
    LET mx == IF alg.max_auction > 0 THEN alg.max_auction ELSE 1
        value == IF alg.max_auction > 0 THEN player.auction_value ELSE 0
        sc == calculate_positional_scarcity(alg, player.position)
        dr == calculate_value_dropoff(alg, player.position)
        ur == calculate_pick_urgency(picks_until_next)
        bye == IF ByePenaltyApplies(player, t) THEN 1 ELSE 0
        den == 380 * mx * sc[2] * dr[2]
        num == 114 * value * sc[2] * dr[2]
               + 152 * sc[1] * dr[1] * mx
               + 6 * ur[1] * mx * sc[2] * dr[2]
               - 19 * bye * mx * sc[2] * dr[2]
    IN  <<num, den>>

\* RegretDraftAlgorithm.calculate_regret_score:
\*   0.3*value_score + 0.4*scarcity*dropoff + 0.3*urgency - bye_penalty,
\* floored at 0, over the common denominator 380 * max * sd * dd
calculate_regret_score(alg, player, t, picks_until_next) ==
    LET mx == IF alg.max_auction > 0 THEN alg.max_auction ELSE 1
        value == IF alg.max_auction > 0 THEN player.auction_value ELSE 0
        sc == calculate_positional_scarcity(alg, player.position)
        dr == calculate_value_dropoff(alg, player.position)
        ur == calculate_pick_urgency(picks_until_next)
        bye == IF ByePenaltyApplies(player, t) THEN 1 ELSE 0
        den == 380 * mx * sc[2] * dr[2]
        num == 114 * value * sc[2] * dr[2]
               + 152 * sc[1] * dr[1] * mx
               + 6 * ur[1] * mx * sc[2] * dr[2]
               - 19 * bye * mx * sc[2] * dr[2]
    IN  <<Max(0, num), den>>

\* mutant of RegretPick: a team without needs is served like any other
RegretPickForFullTeam(alg, t, picks_until_next) ==
    LET needs == get_needs(t)
        available == get_available_players(alg)
        filling == SelectSeq(available,
                             LAMBDA p : FillsNeed(p.position, needs))
        candidates == IF filling = <<>> THEN available ELSE filling
        score == [i \in 1..Len(candidates) |->
                     calculate_regret_score(alg, candidates[i], t,
                                            picks_until_next)]
        b == CHOOSE i \in 1..Len(candidates) :
                 /\ \A j \in 1..Len(candidates) : FracLE(score[j], score[i])
                 /\ \A j \in 1..(i - 1) : FracLT(score[j], score[i])
    IN  IF available = <<>> THEN NoPlayer
        ELSE candidates[b]

\* mutant of RegretPick: among equal scores the last candidate wins
RegretPickLastTie(alg, t, picks_until_next) ==
    LET needs == get_needs(t)
        available == get_available_players(alg)
        filling == SelectSeq(available,
                             LAMBDA p : FillsNeed(p.position, needs))
        candidates == IF filling = <<>> THEN available ELSE filling
        score == [i \in 1..Len(candidates) |->
                     calculate_regret_score(alg, candidates[i], t,
                                            picks_until_next)]
        b == CHOOSE i \in 1..Len(candidates) :
                 /\ \A j \in 1..Len(candidates) : FracLE(score[j], score[i])
                 /\ \A j \in (i + 1)..Len(candidates) :
                        FracLT(score[j], score[i])
    IN  IF needs = <<>> THEN NoPlayer
        ELSE IF available = <<>> THEN NoPlayer
        ELSE candidates[b]

\* mutant of RegretPick: no fallback to the players that fill no need
RegretPickNoFallback(alg, t, picks_until_next) ==
    LET needs == get_needs(t)
        available == get_available_players(alg)
        candidates == SelectSeq(available,
                                LAMBDA p : FillsNeed(p.position, needs))
        score == [i \in 1..Len(candidates) |->
                     calculate_regret_score(alg, candidates[i], t,
                                            picks_until_next)]
        b == CHOOSE i \in 1..Len(candidates) :
                 /\ \A j \in 1..Len(candidates) : FracLE(score[j], score[i])
                 /\ \A j \in 1..(i - 1) : FracLT(score[j], score[i])
    IN  IF needs = <<>> THEN NoPlayer
        ELSE IF candidates = <<>> THEN NoPlayer
        ELSE candidates[b]

\* RegretDraftAlgorithm.draft_player: the player returned (NoPlayer for None)
RegretPick(alg, t, picks_until_next) ==
    LET needs == get_needs(t)
        available == get_available_players(alg)
        filling == SelectSeq(available,
                             LAMBDA p : FillsNeed(p.position, needs))
        candidates == IF filling = <<>> THEN available ELSE filling
        score == [i \in 1..Len(candidates) |->
                     calculate_regret_score(alg, candidates[i], t,
                                            picks_until_next)]
        \* candidates.sort(key=score, reverse=True)[0]: the first candidate,
        \* in pool order, that no other candidate outscores
        b == CHOOSE i \in 1..Len(candidates) :
                 /\ \A j \in 1..Len(candidates) : FracLE(score[j], score[i])
                 /\ \A j \in 1..(i - 1) : FracLT(score[j], score[i])
    IN  IF needs = <<>> THEN NoPlayer
        ELSE IF available = <<>> THEN NoPlayer
        ELSE candidates[b]

----------------------------------------------------------------------------
(* draft_simulator.py *)

\* DRAFT_CONFIG['num_teams']: 10 in the source, scaled down here
num_teams == 3

\* DRAFT_CONFIG['draft_position']: the tracked team, the middle one (5 of 10)
draft_position == (num_teams + 1) \div 2

TeamIds == 1..num_teams

\* the strategy classes simulate_draft is run with; "Other" is a class that
\* has a draft_player method and no drafted_players attribute, which the
\* hasattr tests of _execute_draft_pick and _update_all_algorithms allow for
StrategyClasses == {"Greedy", "Regret"}

AlgorithmClasses == StrategyClasses \cup {"Other"}

\* hasattr(algorithm, 'drafted_players')
HasDraftedPlayers(class) == class \in StrategyClasses

\* the rounds simulate_draft plays for a pool of n players
ActualRounds(n) ==
    LET total_picks_needed == num_teams * total_picks
        max_picks_per_team == Max(1, n \div num_teams)
    IN  IF n < total_picks_needed
        THEN Min(total_picks, max_picks_per_team)
        ELSE total_picks

\* algorithm_class(algorithm_players), on the engine's copy of the pool
NewAlgorithm(class, pool) ==
    CASE class = "Greedy" -> GreedyInit(pool)
      [] class = "Regret" -> RegretInit(pool)
      [] OTHER -> [all_players |-> pool]

\* mutant of _calculate_picks_until_next: the picks between the two turns
calculate_picks_until_next_between(current_pick, team_id, order) ==
    LET remaining_picks == SubSeq(order, current_pick + 2, Len(order))
        next_our_pick ==
            FirstIndex({i \in 1..Len(remaining_picks) :
                           remaining_picks[i] = draft_position})
    IN  IF team_id # draft_position THEN 11
        ELSE IF next_our_pick # 0 THEN next_our_pick - 1
        ELSE Len(remaining_picks) + 1

\* mutant of _calculate_picks_until_next: other teams get the team count
calculate_picks_until_next_num_teams(current_pick, team_id, order) ==
    LET remaining_picks == SubSeq(order, current_pick + 2, Len(order))
        next_our_pick ==
            FirstIndex({i \in 1..Len(remaining_picks) :
                           remaining_picks[i] = draft_position})
    IN  IF team_id # draft_position THEN num_teams
        ELSE IF next_our_pick # 0 THEN next_our_pick + 1
        ELSE Len(remaining_picks) + 1

\* mutant of _calculate_picks_until_next: counts from the current pick
calculate_picks_until_next_off(current_pick, team_id, order) ==
    LET remaining_picks == SubSeq(order, current_pick + 1, Len(order))
        next_our_pick ==
            FirstIndex({i \in 1..Len(remaining_picks) :
                           remaining_picks[i] = draft_position})
    IN  IF team_id # draft_position THEN 11
        ELSE IF next_our_pick # 0 THEN next_our_pick
        ELSE Len(remaining_picks) + 1

\* DraftSimulator._calculate_picks_until_next (current_pick is 0-based)
calculate_picks_until_next(current_pick, team_id, order) ==
    LET remaining_picks == SubSeq(order, current_pick + 2, Len(order))
        next_our_pick ==
            FirstIndex({i \in 1..Len(remaining_picks) :
                           remaining_picks[i] = draft_position})
    IN  IF team_id # draft_position THEN 11
        ELSE IF next_our_pick # 0 THEN next_our_pick
        ELSE Len(remaining_picks) + 1

\* the players algorithm.draft_player may return in _execute_draft_pick,
\* after the instance's drafted_players was updated with globally_drafted
DraftPlayerResults(class, alg, t, picks_until_next) ==
    CASE class = "Greedy" -> {GreedyPick(alg, t)}
      [] class = "Regret" -> {RegretPick(alg, t, picks_until_next)}
      [] OTHER -> Range(alg.all_players) \cup {NoPlayer}

\* the pool indices of the players RegretDraftAlgorithm.draft_player scores
\* for team t: the undrafted players that fill a need, all undrafted players
\* when none does, nobody when the team has no needs
ScoredCandidates(class, alg, t) ==
    IF class # "Regret" \/ get_needs(t) = <<>> THEN {}
    ELSE LET available == {i \in 1..Len(alg.all_players) :
                              alg.all_players[i].name
                                  \notin alg.drafted_players}
             filling == {i \in available :
                            FillsNeed(alg.all_players[i].position,
                                      get_needs(t))}
         IN  IF filling = {} THEN available ELSE filling

\* the scored players whose regret score carries the bye penalty
PenalizedCandidates(class, alg, t) ==
    {i \in ScoredCandidates(class, alg, t) :
        ByePenaltyApplies(alg.all_players[i], t)}

\* mutant of AlreadyDrafted: the double-check is skipped
AlreadyDraftedNever(player, drafted) == FALSE

\* _execute_draft_pick: "player and player.name in globally_drafted"
AlreadyDrafted(player, drafted) ==
    player # NoPlayer /\ player.name \in drafted

\* mutant of determine_roster_position: FLEX is tried before the own slot
determine_roster_position_flex_first(player, t) ==
    LET needs == get_needs(t)
    IN  IF "FLEX" \in Range(needs) /\ player.position \in FlexEligible
        THEN "FLEX"
        ELSE player.position

\* mutant of determine_roster_position: FLEX takes every eligible player
\* whose own slot is full, needed or not
determine_roster_position_flex_fallback(player, t) ==
    LET needs == get_needs(t)
    IN  IF player.position \in Range(needs) THEN player.position
        ELSE IF player.position \in FlexEligible
        THEN "FLEX"
        ELSE player.position

\* DraftSimulator._determine_roster_position
determine_roster_position(player, t) ==
    LET needs == get_needs(t)
    IN  IF player.position \in Range(needs) THEN player.position
        ELSE IF "FLEX" \in Range(needs) /\ player.position \in FlexEligible
        THEN "FLEX"
        ELSE player.position

\* mutant of most_players_drafted: the draft is never ended early
most_players_drafted_never(drafted, pool) == FALSE

\* len(globally_drafted) >= len(players) * 0.9
most_players_drafted(drafted, pool) ==
    10 * Cardinality(drafted) >= 9 * Len(pool)

\* drafted_players.update(names) on one instance
WithDrafted(class, alg, names) ==
    IF HasDraftedPlayers(class)
    THEN [alg EXCEPT !.drafted_players = @ \cup names]
    ELSE alg

\* mutant of AfterDraftPlayer: the returned player's name is not recorded
AfterDraftPlayerSilent(class, alg, returned) == alg

\* the effect of draft_player on the instance it is called on: the returned
\* player's name joins the instance's own drafted_players
AfterDraftPlayer(class, alg, returned) ==
    IF returned = NoPlayer THEN alg
    ELSE WithDrafted(class, alg, {returned.name})

\* mutant of _update_all_algorithms: the pick is not passed on
update_all_algorithms_skipped(class, algs, drafted_player_name) == algs

\* DraftSimulator._update_all_algorithms
update_all_algorithms(class, algs, drafted_player_name) ==
    [t \in DOMAIN algs |-> WithDrafted(class, algs[t], {drafted_player_name})]

----------------------------------------------------------------------------
(* SpecOrder: the order generated, then the picks until the next turn *)

InitOrder ==
    /\ TeamIdle
    /\ StrategyIdle
    /\ DraftIdle
    /\ o_num_teams \in 0..MaxOrderTeams
    /\ o_num_rounds \in 0..MaxOrderRounds
    /\ o_order = <<>>
    /\ o_pc = "call"
    /\ o_pick = 0
    /\ o_team = 0
    /\ o_until = 0

\* draft_order = generate_snake_draft_order(num_teams, num_rounds)
GenerateOrder ==
    /\ o_pc = "call"
    /\ o_order' = generate_snake_draft_order(o_num_teams, o_num_rounds)
    /\ o_pc' = "done"
    /\ UNCHANGED <<o_num_teams, o_num_rounds, o_pick, o_team, o_until,
                   teamVars, strategyVars, draftVars>>

\* self._calculate_picks_until_next(pick_num, team_id, draft_order) for a
\* pick index of the order and a team of the league; simulate_draft calls it
\* with team_id = draft_order[pick_num]
CalcPicksUntilNext ==
    /\ o_pc = "done"
    /\ \E pick \in 0..(Len(o_order) - 1), team_id \in 1..o_num_teams :
          /\ o_pick' = pick
          /\ o_team' = team_id
          /\ o_until' = calculate_picks_until_next(pick, team_id, o_order)
    /\ o_pc' = "calculated"
    /\ UNCHANGED <<o_num_teams, o_num_rounds, o_order,
                   teamVars, strategyVars, draftVars>>

NextOrder == GenerateOrder \/ CalcPicksUntilNext

SpecOrder == InitOrder /\ [][NextOrder]_vars

\* C5: generate_snake_draft_order(N, R) has length N*R; round r (0-indexed)
\* occupies positions r*N .. r*N+N-1 and reads 1..N when r is even and N..1
\* when r is odd, so every team appears once per round.
C5_SnakeOrder ==
    o_pc = "done" =>
        /\ Len(o_order) = o_num_teams * o_num_rounds
        /\ \A r \in 0..(o_num_rounds - 1) : \A k \in 1..o_num_teams :
               o_order[r * o_num_teams + k] =
                   IF r % 2 = 0 THEN k ELSE o_num_teams - k + 1
        /\ \A r \in 0..(o_num_rounds - 1) : \A t \in 1..o_num_teams :
               Cardinality({k \in 1..o_num_teams :
                               o_order[r * o_num_teams + k] = t}) = 1

C5_Witness ==
    /\ o_pc = "done"
    /\ o_num_teams = 4
    /\ o_num_rounds = 2
    /\ o_order = <<1, 2, 3, 4, 4, 3, 2, 1>>

\* 0-based indices after o_pick at which the tracked team picks again
LaterTrackedPicks ==
    {j \in (o_pick + 1)..(Len(o_order) - 1) : o_order[j + 1] = draft_position}

\* C13: when the tracked team (draft_position) picks at index i and picks
\* again later, _calculate_picks_until_next returns j - i for the smallest
\* later index j holding the tracked team; adjacent picks give 1.
C13_PicksUntilNext ==
    (o_pc = "calculated" /\ o_team = draft_position
                         /\ LaterTrackedPicks # {}) =>
        /\ \E j \in LaterTrackedPicks :
               /\ \A k \in LaterTrackedPicks : j <= k
               /\ o_until = j - o_pick
        /\ (o_pick + 1 \in LaterTrackedPicks => o_until = 1)

C13_Witness ==
    /\ o_pc = "calculated"
    /\ o_team = draft_position
    /\ o_order[o_pick + 1] = draft_position
    /\ LaterTrackedPicks # {}
    /\ o_pick + 1 \notin LaterTrackedPicks
    /\ o_until > 1

\* C24: _calculate_picks_until_next returns 11 for every team other than
\* the tracked one, at every pick index; for the tracked team without a later
\* turn it returns the number of picks after the current one, plus 1.
C24_DefaultAndLastTurn ==
    o_pc = "calculated" =>
        /\ o_team # draft_position => o_until = 11
        /\ (o_team = draft_position /\ LaterTrackedPicks = {}) =>
               o_until = (Len(o_order) - (o_pick + 1)) + 1

C24_Witness ==
    /\ o_pc = "calculated"
    /\ o_team = draft_position
    /\ o_order[o_pick + 1] = draft_position
    /\ LaterTrackedPicks = {}
    /\ o_pick + 1 < Len(o_order)
    /\ o_until = Len(o_order) - o_pick

C24_WitnessOtherTeam ==
    /\ o_pc = "calculated"
    /\ o_team # draft_position
    /\ o_order[o_pick + 1] = o_team
    /\ o_num_teams # 11
    /\ o_until = 11

C13_WitnessAdjacent ==
    /\ o_pc = "calculated"
    /\ o_team = draft_position
    /\ o_order[o_pick + 1] = draft_position
    /\ o_pick + 1 \in LaterTrackedPicks
    /\ o_until = 1

----------------------------------------------------------------------------
(* Spec: simulate_draft over drawn player pools *)

\* longest pool drawn freely from the catalog
MaxSmallPool == 3

\* players the short pools are drawn from: a shared name (1), an ADP tie
\* (rank 2), a position outside the roster slots (DEF), equal bye weeks
Catalog ==
    {Player(1, "QB", 1, 50, 30, 10), Player(2, "RB", 2, 45, 25, 11),
     Player(3, "WR", 2, 40, 20, 10), Player(1, "RB", 3, 45, 15, 12),
     Player(4, "DEF", 4, 0, 10, 0)}

SmallPools == UNION {[1..n -> Catalog] : n \in 0..MaxSmallPool}

\* position sequences the long pools repeat: the fill list of
\* test_roster_completion, the blocks of TestIntegration.setUp, and a
\* sequence with a position outside the roster slots
PositionPatterns ==
    << <<"QB", "RB", "RB", "WR", "WR", "TE", "RB", "K">>,
       <<"QB", "QB", "QB", "RB", "RB", "RB", "RB", "RB", "RB",
         "WR", "WR", "WR", "WR", "WR", "WR", "TE", "TE", "TE", "K", "K">>,
       <<"K", "DEF", "QB", "TE">> >>

AdpPatterns == {"asc", "desc", "ties"}

ValuePatterns == {"desc", "zero", "mixed"}

MaxPool == num_teams * total_picks + 1

PatternPool(n, pp, ap, vp) ==
    [i \in 1..n |->
        Player(100 + i,
               PositionPatterns[pp][((i - 1) % Len(PositionPatterns[pp])) + 1],
               CASE ap = "asc" -> i
                 [] ap = "desc" -> n + 1 - i
                 [] OTHER -> (i + 1) \div 2,
               CASE vp = "desc" -> 51 - i
                 [] vp = "zero" -> 0
                 [] OTHER -> (i * 7) % 5,
               300 - 10 * i,
               ((i - 1) % 14) + 1)]

PatternPools ==
    {PatternPool(n, pp, ap, vp) :
        n \in 1..MaxPool, pp \in 1..Len(PositionPatterns),
        ap \in AdpPatterns, vp \in ValuePatterns}

Init ==
    /\ TeamIdle
    /\ OrderIdle
    /\ StrategyIdle
    /\ \/ players \in SmallPools /\ algorithm_class \in AlgorithmClasses
       \/ players \in PatternPools /\ algorithm_class \in StrategyClasses
    /\ teams = <<>>
    /\ team_algorithms = <<>>
    /\ draft_order = <<>>
    /\ globally_drafted = {}
    /\ pick_num = 0
    /\ pc = "start"
    /\ last = NoLast
    /\ shared = NoShared

\* simulate_draft with team_algorithms[team_id] the same instance for every
\* team: the state before any pick slot
SharedStart ==
    [alg |-> NewAlgorithm(algorithm_class, players),
     teams |-> [t \in TeamIds |-> NewTeam(t)],
     globally_drafted |-> {},
     picks |-> <<>>,
     stopped |-> FALSE]

\* the bookkeeping of one pick slot on the shared instance, once draft_player
\* has returned: the duplicate guard, the global set, the roster and the
\* broadcast, or the test for the early stop
SharedPlaced(st, team_id, synced, returned) ==
    LET current_team == st.teams[team_id]
        called == AfterDraftPlayer(algorithm_class, synced, returned)
    IN  IF returned # NoPlayer
           /\ ~AlreadyDrafted(returned, st.globally_drafted)
        THEN [alg |-> WithDrafted(algorithm_class, called, {returned.name}),
              teams |-> [st.teams EXCEPT ![team_id] =
                            add_player(current_team, returned,
                                       determine_roster_position(
                                           returned, current_team))],
              globally_drafted |-> st.globally_drafted \cup {returned.name},
              picks |-> Append(st.picks, <<team_id, returned>>),
              stopped |-> FALSE]
        ELSE [st EXCEPT
                 !.alg = called,
                 !.picks = Append(@, <<team_id, NoPlayer>>),
                 !.stopped = most_players_drafted(st.globally_drafted,
                                                  players)]

\* the loop body of simulate_draft for pick slot k on the shared instance
SharedPick(st, k) ==
    LET team_id == draft_order[k]
        synced == WithDrafted(algorithm_class, st.alg, st.globally_drafted)
    IN  SharedPlaced(st, team_id, synced,
            CHOOSE p \in DraftPlayerResults(
                             algorithm_class, synced, st.teams[team_id],
                             calculate_picks_until_next(k - 1, team_id,
                                                        draft_order)) : TRUE)

\* simulate_draft up to the pick loop: the None return on an empty pool, the
\* round adjustment, the teams, one strategy instance per team on its own
\* copy of the pool, the draft order and the empty global set
StartDraft ==
    /\ pc = "start"
    /\ IF players = <<>>
       THEN /\ pc' = "returned_none"
            /\ UNCHANGED <<teams, team_algorithms, draft_order, shared>>
       ELSE /\ teams' = [t \in TeamIds |-> NewTeam(t)]
            /\ team_algorithms' =
                   [t \in TeamIds |-> NewAlgorithm(algorithm_class, players)]
            /\ draft_order' = generate_snake_draft_order(
                                  num_teams, ActualRounds(Len(players)))
            /\ shared' = SharedStart
            /\ pc' = "loop"
    /\ UNCHANGED <<players, algorithm_class, globally_drafted, pick_num, last,
                   teamVars, orderVars, strategyVars>>

\* mutant of DraftPick: the private instances are left unsynchronised, with
\* no update from globally_drafted before the pick and no broadcast after it
DraftPickIsolated ==
    /\ pc = "loop"
    /\ pick_num < Len(draft_order)
    /\ LET team_id == draft_order[pick_num + 1]
           current_team == teams[team_id]
           picks_until_next ==
               calculate_picks_until_next(pick_num, team_id, draft_order)
           \* _execute_draft_pick
           synced == team_algorithms[team_id]
       IN  \E returned \in DraftPlayerResults(algorithm_class, synced,
                                              current_team, picks_until_next) :
             LET called == [team_algorithms EXCEPT ![team_id] =
                               AfterDraftPlayer(algorithm_class, synced,
                                                returned)]
                 drafted_player ==
                     IF AlreadyDrafted(returned, globally_drafted)
                     THEN NoPlayer ELSE returned
                 position ==
                     IF drafted_player = NoPlayer THEN None
                     ELSE determine_roster_position(drafted_player,
                                                    current_team)
                 broke == /\ drafted_player = NoPlayer
                          /\ most_players_drafted(globally_drafted, players)
             IN  /\ IF drafted_player # NoPlayer
                    THEN /\ globally_drafted' =
                                globally_drafted \cup {drafted_player.name}
                         /\ teams' = [teams EXCEPT ![team_id] =
                                add_player(current_team, drafted_player,
                                           position)]
                         /\ team_algorithms' = called
                    ELSE /\ team_algorithms' = called
                         /\ UNCHANGED <<globally_drafted, teams>>
                 /\ pc' = IF broke \/ pick_num + 1 = Len(draft_order)
                          THEN "done" ELSE "loop"
                 /\ last' = [slot |-> pick_num + 1,
                             team_id |-> team_id,
                             picks_until_next |-> picks_until_next,
                             needs |-> get_needs(current_team),
                             global_before |-> globally_drafted,
                             drafted_at_call |->
                                 IF HasDraftedPlayers(algorithm_class)
                                 THEN synced.drafted_players ELSE {},
                             returned |-> returned,
                             player |-> drafted_player,
                             position |-> position,
                             broke |-> broke,
                             roster |-> current_team.roster,
                             scored |->
                                 ScoredCandidates(algorithm_class, synced,
                                                  current_team),
                             penalized |->
                                 PenalizedCandidates(algorithm_class, synced,
                                                     current_team)]
    /\ pick_num' = pick_num + 1
    /\ shared' = IF algorithm_class \in StrategyClasses /\ ~shared.stopped
                 THEN SharedPick(shared, pick_num + 1)
                 ELSE shared
    /\ UNCHANGED <<players, algorithm_class, draft_order, teamVars, orderVars,
                   strategyVars>>

\* one iteration of "for pick_num, team_id in enumerate(draft_order)",
\* with the break and the end of the loop
DraftPick ==
    /\ pc = "loop"
    /\ pick_num < Len(draft_order)
    /\ LET team_id == draft_order[pick_num + 1]
           current_team == teams[team_id]
           picks_until_next ==
               calculate_picks_until_next(pick_num, team_id, draft_order)
           \* _execute_draft_pick
           synced == WithDrafted(algorithm_class, team_algorithms[team_id],
                                 globally_drafted)
       IN  \E returned \in DraftPlayerResults(algorithm_class, synced,
                                              current_team, picks_until_next) :
             LET called == [team_algorithms EXCEPT ![team_id] =
                               AfterDraftPlayer(algorithm_class, synced,
                                                returned)]
                 drafted_player ==
                     IF AlreadyDrafted(returned, globally_drafted)
                     THEN NoPlayer ELSE returned
                 position ==
                     IF drafted_player = NoPlayer THEN None
                     ELSE determine_roster_position(drafted_player,
                                                    current_team)
                 broke == /\ drafted_player = NoPlayer
                          /\ most_players_drafted(globally_drafted, players)
             IN  /\ IF drafted_player # NoPlayer
                    THEN /\ globally_drafted' =
                                globally_drafted \cup {drafted_player.name}
                         /\ teams' = [teams EXCEPT ![team_id] =
                                add_player(current_team, drafted_player,
                                           position)]
                         /\ team_algorithms' =
                                update_all_algorithms(algorithm_class, called,
                                                      drafted_player.name)
                    ELSE /\ team_algorithms' = called
                         /\ UNCHANGED <<globally_drafted, teams>>
                 /\ pc' = IF broke \/ pick_num + 1 = Len(draft_order)
                          THEN "done" ELSE "loop"
                 /\ last' = [slot |-> pick_num + 1,
                             team_id |-> team_id,
                             picks_until_next |-> picks_until_next,
                             needs |-> get_needs(current_team),
                             global_before |-> globally_drafted,
                             drafted_at_call |->
                                 IF HasDraftedPlayers(algorithm_class)
                                 THEN synced.drafted_players ELSE {},
                             returned |-> returned,
                             player |-> drafted_player,
                             position |-> position,
                             broke |-> broke,
                             roster |-> current_team.roster,
                             scored |->
                                 ScoredCandidates(algorithm_class, synced,
                                                  current_team),
                             penalized |->
                                 PenalizedCandidates(algorithm_class, synced,
                                                     current_team)]
    /\ pick_num' = pick_num + 1
    /\ shared' = IF algorithm_class \in StrategyClasses /\ ~shared.stopped
                 THEN SharedPick(shared, pick_num + 1)
                 ELSE shared
    /\ UNCHANGED <<players, algorithm_class, draft_order, teamVars, orderVars,
                   strategyVars>>

Next == StartDraft \/ DraftPick

Spec == Init /\ [][Next]_vars

----------------------------------------------------------------------------
(* properties of simulate_draft *)

Running == pc \in {"loop", "done"}

\* the names of a list of players
NamesOf(seq) == {seq[i].name : i \in 1..Len(seq)}

\* some name occurs twice in the list
HasRepeatedName(seq) ==
    \E i, j \in 1..Len(seq) : i # j /\ seq[i].name = seq[j].name

\* positions of the five real roster positions only
CorePositions == {"QB", "RB", "WR", "TE", "K"}

\* every roster entry of the draft, as <<team, slot, index>>
RosterEntries ==
    {e \in TeamIds \X Slots \X (1..(num_teams * total_picks)) :
        e[3] <= Len(teams[e[1]].roster[e[2]])}

\* every draft_picks entry of the draft, as <<team, index>>
PickEntries ==
    {e \in TeamIds \X (1..(num_teams * total_picks)) :
        e[2] <= Len(teams[e[1]].draft_picks)}

\* C1: at every point of simulate_draft, for any pool and strategy, no player
\* name occurs twice among the roster slots of all teams, nor twice among the
\* draft_picks of all teams.
C1_NamesUnique ==
    Running =>
        /\ \A e, f \in RosterEntries :
               e # f => teams[e[1]].roster[e[2]][e[3]].name
                            # teams[f[1]].roster[f[2]][f[3]].name
        /\ \A e, f \in PickEntries :
               e # f => teams[e[1]].draft_picks[e[2]].name
                            # teams[f[1]].draft_picks[f[2]].name

C1_Witness ==
    /\ pc = "done"
    /\ algorithm_class \in StrategyClasses
    /\ HasRepeatedName(players)
    /\ Len(players) < num_teams * total_picks
    /\ Cardinality(globally_drafted) >= 2
    /\ Cardinality({t \in TeamIds : teams[t].draft_picks # <<>>}) >= 2

\* a pool of exactly num_teams * total_picks players with distinct names and
\* positions among QB/RB/WR/TE/K, drafted to the end by Greedy or Regret
ExactPoolDone ==
    /\ pc = "done"
    /\ algorithm_class \in StrategyClasses
    /\ Len(players) = num_teams * total_picks
    /\ ~HasRepeatedName(players)
    /\ \A i \in 1..Len(players) : players[i].position \in CorePositions

\* C4 as stated: with a pool of exactly num_teams * total_picks players, at
\* the end of the draft every roster is complete and every player drafted.
C4_ExactPoolCompletes ==
    ExactPoolDone =>
        /\ \A t \in TeamIds : is_complete(teams[t])
        /\ globally_drafted = NamesOf(players)

\* C4 amended: with such a pool, at the end of the draft every player has
\* been drafted and every team holds exactly total_picks players; a roster is
\* complete exactly when no slot of it was overfilled.
C4_ExactPoolAllDrafted ==
    ExactPoolDone =>
        /\ globally_drafted = NamesOf(players)
        /\ \A t \in TeamIds :
               /\ Len(teams[t].draft_picks) = total_picks
               /\ is_complete(teams[t]) <=>
                      \A s \in Slots :
                          Len(teams[t].roster[s]) <= roster_spots[s]

C4_Witness ==
    /\ ExactPoolDone
    /\ \A t \in TeamIds : is_complete(teams[t])

\* an exact pool whose position mix leaves a roster incomplete
C4_WitnessIncomplete ==
    /\ ExactPoolDone
    /\ \E t \in TeamIds : ~is_complete(teams[t])

\* C6: when the strategy returns a player whose name is already in the global
\* drafted set, the pick slot is retried, so the team still receives an
\* undrafted player in that slot whenever one remains.
C6_DuplicatePickRetried ==
    (/\ last.slot > 0
     /\ last.returned # NoPlayer
     /\ last.returned.name \in last.global_before
     /\ NamesOf(players) \ last.global_before # {})
        => /\ last.player # NoPlayer
           /\ last.player.name \notin last.global_before

\* C7: the number of pick slots of the generated draft order does not exceed
\* the number of players in the pool.
C7_SlotsWithinPool ==
    Running => Len(draft_order) <= Len(players)

\* C17: when draft_player is invoked the picking instance's drafted set holds
\* every name of the engine's global drafted set; once a pick slot is done
\* every instance's drafted set equals the global set; a strategy never
\* returns a player whose name is in the global set.
C17_InstancesSynced ==
    (Running /\ HasDraftedPlayers(algorithm_class)) =>
        /\ last.global_before \subseteq last.drafted_at_call
        /\ \A t \in TeamIds :
               team_algorithms[t].drafted_players = globally_drafted
        /\ last.returned # NoPlayer =>
               /\ last.returned.name \notin last.global_before
               /\ last.player = last.returned

C17_Witness ==
    /\ Running
    /\ HasDraftedPlayers(algorithm_class)
    /\ last.slot > 1
    /\ last.global_before # {}
    /\ last.player # NoPlayer
    /\ globally_drafted = last.global_before \cup {last.player.name}
    /\ \A t \in TeamIds :
           team_algorithms[t].drafted_players = globally_drafted

\* the bye weeks the season's player descriptors give for the players of a
\* roster; a rostered player is found in the pool by name and position
DescriptorByeWeeks(roster) ==
    {players[j].bye_week :
        j \in {k \in 1..Len(players) :
                  \E s \in DOMAIN roster : \E i \in 1..Len(roster[s]) :
                      /\ roster[s][i].name = players[k].name
                      /\ roster[s][i].position = players[k].position}}

\* C18: in a Regret draft the bye penalty is subtracted from the score of a
\* candidate exactly when the candidate's bye week, as the player descriptors
\* give it, is the bye week of some player on the picking team's roster.
C18_ByePenaltyByDescriptor ==
    (Running /\ algorithm_class = "Regret" /\ last.slot > 0) =>
        \A i \in last.scored :
            i \in last.penalized <=>
                players[i].bye_week \in DescriptorByeWeeks(last.roster)

\* a pick slot has just given a player to a team
PickMade == Running /\ last.slot > 0 /\ last.player # NoPlayer

\* the slot the placement rule names for the last pick: the player's own
\* position if it was a need, else FLEX if eligible and needed, else the
\* player's own position
RuleSlot ==
    IF last.player.position \in Range(last.needs)
    THEN last.player.position
    ELSE IF "FLEX" \in Range(last.needs)
            /\ last.player.position \in FlexEligible
    THEN "FLEX"
    ELSE last.player.position

\* the last pick went to the end of slot s of the picking team and to no
\* other slot
PlacedIn(s) ==
    /\ s \in Slots
    /\ teams[last.team_id].roster =
           [last.roster EXCEPT ![s] = Append(@, last.player)]

\* C21: the engine places every drafted player in the slot of its own
\* position if that is a need, else in FLEX if the player is RB/WR/TE and
\* FLEX is a need, else in the slot of its own position although it is full.
C21_PlacedByRule == PickMade => PlacedIn(RuleSlot)

\* the same for players whose position has a roster slot
C21_PlacedByRuleWhenSlotExists ==
    (PickMade /\ last.player.position \in Slots) => PlacedIn(RuleSlot)

\* a pick slot is processed and gives no player
EmptyPickStep ==
    /\ pc = "loop"
    /\ last'.slot = pick_num + 1
    /\ last'.player = NoPlayer

\* C22: when a pick slot yields no player, the draft processes no further
\* slot if the globally drafted names are at least 90% of the pool, and goes
\* on to the next slot otherwise; the empty pick changes no roster, no
\* total_points and not the global drafted set.
C22_EmptyPick ==
    [][/\ pc # "done"
       /\ EmptyPickStep =>
              /\ teams' = teams
              /\ globally_drafted' = globally_drafted
              /\ IF 10 * Cardinality(globally_drafted) >= 9 * Len(players)
                 THEN pc' = "done"
                 ELSE IF pick_num + 1 < Len(draft_order)
                 THEN pc' = "loop" /\ pick_num' = pick_num + 1
                 ELSE pc' = "done"]_vars

C22_Witness ==
    /\ pc = "done"
    /\ last.player = NoPlayer
    /\ last.slot < Len(draft_order)
    /\ 10 * Cardinality(globally_drafted) >= 9 * Len(players)

C22_WitnessContinue ==
    /\ pc = "loop"
    /\ algorithm_class \in StrategyClasses
    /\ last.slot > 0
    /\ last.player = NoPlayer
    /\ 10 * Cardinality(globally_drafted) < 9 * Len(players)

\* 1-based pick slots after the last one at which the tracked team picks
LaterTrackedSlots ==
    {k \in (last.slot + 1)..Len(draft_order) :
        draft_order[k] = draft_position}

NextTrackedSlot ==
    CHOOSE k \in LaterTrackedSlots : \A j \in LaterTrackedSlots : k <= j

\* picks of other teams strictly between the last slot and the tracked
\* team's next one
InterveningPicks ==
    Cardinality({k \in (last.slot + 1)..(NextTrackedSlot - 1) :
                    draft_order[k] # draft_position})

\* the tracked team has just had a turn and has another one later
TrackedPick ==
    /\ Running
    /\ last.slot > 0
    /\ last.team_id = draft_position
    /\ LaterTrackedSlots # {}

\* C23 as stated: for the tracked team, the picks_until_next passed to the
\* strategy is the number of picks other teams make strictly between the
\* current pick and the tracked team's next turn.
C23_PassedIntervening ==
    TrackedPick => last.picks_until_next = InterveningPicks

\* C23, amended: for the tracked team, the picks_until_next passed to the
\* strategy is the number of intervening picks plus one, the distance from
\* the current pick to the tracked team's next turn.
C23_PassedDistance ==
    TrackedPick => last.picks_until_next = InterveningPicks + 1

C23_Witness ==
    /\ TrackedPick
    /\ algorithm_class = "Regret"
    /\ InterveningPicks >= 1
    /\ last.picks_until_next = NextTrackedSlot - last.slot

\* a pick slot was processed in a draft run with the Greedy or the Regret
\* strategy
StrategySlot ==
    /\ Running
    /\ algorithm_class \in StrategyClasses
    /\ last.slot > 0

\* the picks the team of the last slot had made when its turn came
PicksBeforeTurn ==
    Len(teams[last.team_id].draft_picks)
        - (IF last.player # NoPlayer THEN 1 ELSE 0)

\* C27: with either strategy a pick slot yields no player only if every name
\* of the pool is already in the global drafted set; the team whose turn it
\* is has made fewer than 8 picks and has a need, so the number of players
\* drafted equals the minimum of the pool's distinct names and the pick slots
\* processed, at the end as after every slot.
C27_EmptyOnlyWhenExhausted ==
    StrategySlot =>
        /\ PicksBeforeTurn < total_picks
        /\ last.needs # <<>>
        /\ last.player = NoPlayer => NamesOf(players) \subseteq last.global_before
        /\ Cardinality(globally_drafted) =
               Min(Cardinality(NamesOf(players)), last.slot)

C27_Witness ==
    /\ StrategySlot
    /\ pc = "done"
    /\ last.player = NoPlayer
    /\ Len(players) > Cardinality(NamesOf(players))
    /\ Cardinality(globally_drafted) = Cardinality(NamesOf(players))
    /\ Cardinality(globally_drafted) < last.slot

C27_WitnessSlotsRunOut ==
    /\ StrategySlot
    /\ pc = "done"
    /\ last.player # NoPlayer
    /\ PicksBeforeTurn = total_picks - 1
    /\ Cardinality(globally_drafted) = last.slot
    /\ last.slot < Cardinality(NamesOf(players))

\* C28: the draft with one private instance per team, synchronised through
\* the global drafted set and the per-pick broadcast, makes the same
\* (team, player) pick at every slot, stops at the same slot and builds the
\* same rosters as the draft in which all teams share one instance of the
\* same class over the same pool.
C28_SharedInstanceEquivalent ==
    StrategySlot =>
        /\ Len(shared.picks) = last.slot
        /\ shared.picks[last.slot] = <<last.team_id, last.player>>
        /\ shared.teams = teams
        /\ shared.globally_drafted = globally_drafted
        /\ shared.stopped = last.broke

C28_Witness ==
    /\ StrategySlot
    /\ pc = "done"
    /\ algorithm_class = "Regret"
    /\ last.slot = Len(draft_order)
    /\ \A t \in TeamIds : Len(teams[t].draft_picks) >= 2
    /\ shared.teams = teams
    /\ \A k \in 1..last.slot : shared.picks[k][2] # NoPlayer

C28_WitnessStopped ==
    /\ StrategySlot
    /\ pc = "done"
    /\ last.broke
    /\ last.slot < Len(draft_order)
    /\ shared.stopped
    /\ Len(shared.picks) = last.slot

\* every position of the pool has a roster slot of its own
CorePool == \A i \in 1..Len(players) : players[i].position \in CorePositions

\* the last pick was put into a slot that now holds more than its capacity
OverfillPick ==
    /\ PickMade
    /\ last.position \in Slots
    /\ Len(teams[last.team_id].roster[last.position])
           > roster_spots[last.position]

\* C29: in a draft over a pool of QB/RB/WR/TE/K players, a team's FLEX slot
\* holds at most one player and only RB, WR or TE players; only the slots QB,
\* RB, WR, TE and K ever hold more than their capacity, and a player put into
\* a slot beyond its capacity went to its own position, which was not a need,
\* while FLEX was not available to it.
C29_FlexAndOverfill ==
    (Running /\ CorePool) =>
        /\ \A t \in TeamIds :
              /\ Len(teams[t].roster["FLEX"]) <= 1
              /\ \A i \in 1..Len(teams[t].roster["FLEX"]) :
                     teams[t].roster["FLEX"][i].position \in FlexEligible
              /\ \A s \in Slots :
                     Len(teams[t].roster[s]) > roster_spots[s] =>
                         s \in CorePositions
        /\ OverfillPick =>
              /\ last.position = last.player.position
              /\ last.position \notin Range(last.needs)
              /\ ~("FLEX" \in Range(last.needs)
                      /\ last.player.position \in FlexEligible)

C29_Witness ==
    /\ Running
    /\ CorePool
    /\ OverfillPick
    /\ last.player.position \in FlexEligible
    /\ Len(teams[last.team_id].roster["FLEX"]) = 1
    /\ teams[last.team_id].roster["FLEX"][1].position \in FlexEligible

C29_WitnessQuarterback ==
    /\ Running
    /\ CorePool
    /\ OverfillPick
    /\ last.position = "QB"
    /\ "FLEX" \in Range(last.needs)

\* the strategy's copy of pool player i is among some team's draft picks
Rostered(i) ==
    \E t \in TeamIds : \E k \in 1..Len(teams[t].draft_picks) :
        teams[t].draft_picks[k] = StrategyCopy(players[i])

\* pool indices of two players of one name at different positions
NameTwins ==
    {ij \in (1..Len(players)) \X (1..Len(players)) :
        /\ ij[1] < ij[2]
        /\ players[ij[1]].name = players[ij[2]].name
        /\ players[ij[1]].position # players[ij[2]].position}

\* C30: availability goes by name alone: a strategy instance never returns a
\* player whose name is already drafted, be it a different player of that
\* name, so of two same-named players at different positions at most one is
\* ever on a roster.
C30_AvailabilityByName ==
    StrategySlot =>
        /\ last.returned # NoPlayer =>
               /\ last.returned.name \notin last.global_before
               /\ last.returned.name \notin last.drafted_at_call
        /\ \A ij \in NameTwins : ~(Rostered(ij[1]) /\ Rostered(ij[2]))

C30_Witness ==
    /\ StrategySlot
    /\ pc = "done"
    /\ last.returned = NoPlayer
    /\ last.needs # <<>>
    /\ \E ij \in NameTwins :
          /\ Rostered(ij[1]) # Rostered(ij[2])
          /\ players[ij[1]].name \in last.global_before
    /\ \E i \in 1..Len(players) :
          /\ ~Rostered(i)
          /\ FillsNeed(players[i].position, last.needs)

----------------------------------------------------------------------------
(* SpecStrategy: one strategy instance called method by method *)

\* longest pool drawn player by player from Catalog
MaxStrategyPool == 2

\* players at the one position of DeepPool: more than ten, so that the 0.1
\* floor of the scarcity is reached after some of them are drafted
MaxDepth == 12

\* TestGreedyAlgorithm.setUp
GreedyFixture ==
    << Player(201, "QB", 1, 50, 300, 0), Player(202, "RB", 2, 45, 250, 0),
       Player(203, "WR", 3, 40, 200, 0), Player(204, "TE", 4, 35, 150, 0),
       Player(205, "K", 5, 30, 100, 0) >>

\* TestRegretAlgorithm.setUp
RegretFixture ==
    << Player(211, "QB", 1, 50, 350, 0), Player(212, "QB", 10, 25, 280, 0),
       Player(213, "RB", 2, 48, 300, 0), Player(214, "RB", 8, 30, 220, 0),
       Player(215, "RB", 15, 20, 180, 0), Player(216, "WR", 3, 45, 280, 0),
       Player(217, "WR", 7, 32, 200, 0) >>

\* a starter of the pool's highest value with a backup of no value
CliffPool ==
    << Player(401, "QB", 1, 50, 300, 0), Player(402, "QB", 2, 0, 10, 0),
       Player(403, "RB", 3, 30, 200, 0) >>

\* auction values below zero, which int(auction_value) of the loader accepts
NegativePool ==
    << Player(411, "QB", 1, 30, 300, 0), Player(412, "QB", 2, -10, 10, 0),
       Player(413, "RB", 3, 20, 200, 0), Player(414, "QB", 4, -5, 5, 0) >>

\* a pool of equally valued quarterbacks
DeepPool == [i \in 1..MaxDepth |-> Player(300 + i, "QB", i, 20, 100, 0)]

\* the pools a strategy instance is constructed over
StrategyPools ==
    UNION {[1..n -> Catalog] : n \in 0..MaxStrategyPool}
    \cup {GreedyFixture, RegretFixture, CliffPool, NegativePool, DeepPool}
    \cup {PatternPool(total_picks, pp, ap, vp) :
             pp \in 1..Len(PositionPatterns), ap \in AdpPatterns,
             vp \in ValuePatterns}

\* the name sets the engine may pass to drafted_players.update: every set of
\* pool names for a short pool, the leading and trailing names for a long one
DraftedChoices(pool) ==
    LET n == Len(pool)
    IN  IF n < total_picks
        THEN SUBSET {pool[i].name : i \in 1..n}
        ELSE {{pool[i].name : i \in 1..k} : k \in 0..n}
             \cup {{pool[i].name : i \in k..n} : k \in 1..n}

\* team.add_player(player, position) for each call of a list, in order
RECURSIVE AddPlayers(_, _)
AddPlayers(t, calls) ==
    IF calls = <<>> THEN t
    ELSE LET n == Len(calls)
         IN  add_player(AddPlayers(t, SubSeq(calls, 1, n - 1)),
                        calls[n][1], calls[n][2])

\* teams holding one of the first two pool players (as the strategy tests
\* build them), or nobody
PoolTeams(pool) ==
    {NewTeam(1)}
    \cup {add_player(NewTeam(1), pool[i], None) :
             i \in 1..Min(2, Len(pool))}

\* the teams passed to draft_player: the above, and the teams left by the
\* leading and by the trailing calls of FillScript
StrategyTeams(pool) ==
    PoolTeams(pool)
    \cup {AddPlayers(NewTeam(1), SubSeq(FillScript, 1, k)) :
             k \in 1..Len(FillScript)}
    \cup {AddPlayers(NewTeam(1), SubSeq(FillScript, k, Len(FillScript))) :
             k \in 2..Len(FillScript)}

\* the teams passed to calculate_regret_score, which reads a team's bye
\* weeks only
ScoreTeams(pool) ==
    PoolTeams(pool) \cup {AddPlayers(NewTeam(1), SubSeq(FillScript, 1, 1))}

\* values of the argument picks_until_next: below, inside and above 1..19
PicksUntilNextArgs == {-3, 1, 11, 25}

\* positions asked about: the roster's, and one no player holds
PositionQueries == CorePositions \cup {"DEF", "P"}

InitStrategy ==
    /\ TeamIdle
    /\ OrderIdle
    /\ DraftIdle
    /\ s_class \in StrategyClasses
    /\ s_pool \in StrategyPools
    /\ s_alg = NewAlgorithm(s_class, s_pool)
    /\ s_team = NewTeam(1)
    /\ s_call = "__init__"
    /\ s_arg = NoArg
    /\ s_before = s_alg
    /\ s_value = <<0, 1>>
    /\ s_pick = NoPlayer
    /\ s_team_after = NewTeam(1)
    /\ s_other = NewAlgorithm(s_class, s_pool)

\* a call may follow the constructor or the engine's update of the drafted set
Callable == s_call \in {"__init__", "update"}

\* algorithm.drafted_players.update(globally_drafted) before a pick; the
\* other instance holds the same names, from the broadcasts of the picks
SyncDrafted ==
    /\ s_call = "__init__"
    /\ \E names \in DraftedChoices(s_pool) \ {{}} :
          /\ s_alg' = WithDrafted(s_class, s_alg, names)
          /\ s_other' = WithDrafted(s_class, s_other, names)
    /\ s_call' = "update"
    /\ s_before' = s_alg
    /\ UNCHANGED <<s_class, s_pool, s_team, s_arg, s_value, s_pick,
                   s_team_after, teamVars, orderVars, draftVars>>

\* algorithm.calculate_positional_scarcity(position)
CallScarcity ==
    /\ Callable
    /\ s_class = "Regret"
    /\ \E position \in PositionQueries :
          /\ s_arg' = [NoArg EXCEPT !.position = position]
          /\ s_value' = calculate_positional_scarcity(s_alg, position)
    /\ s_call' = "calculate_positional_scarcity"
    /\ s_before' = s_alg
    /\ UNCHANGED <<s_class, s_pool, s_alg, s_team, s_pick, s_team_after,
                   s_other, teamVars, orderVars, draftVars>>

\* algorithm.calculate_value_dropoff(position)
CallDropoff ==
    /\ Callable
    /\ s_class = "Regret"
    /\ \E position \in PositionQueries :
          /\ s_arg' = [NoArg EXCEPT !.position = position]
          /\ s_value' = calculate_value_dropoff(s_alg, position)
    /\ s_call' = "calculate_value_dropoff"
    /\ s_before' = s_alg
    /\ UNCHANGED <<s_class, s_pool, s_alg, s_team, s_pick, s_team_after,
                   s_other, teamVars, orderVars, draftVars>>

\* algorithm.calculate_regret_score(player, team, picks_until_next), on a
\* player of the caller's pool or on the instance's copy of one
CallRegretScore ==
    /\ Callable
    /\ s_class = "Regret"
    /\ \E player \in Range(s_pool) \cup Range(s_alg.all_players),
          t \in ScoreTeams(s_pool),
          picks_until_next \in PicksUntilNextArgs :
          /\ s_arg' = [NoArg EXCEPT !.player = player,
                                    !.picks_until_next = picks_until_next]
          /\ s_team' = t
          /\ s_team_after' = t
          /\ s_value' = calculate_regret_score(s_alg, player, t,
                                               picks_until_next)
    /\ s_call' = "calculate_regret_score"
    /\ s_before' = s_alg
    /\ UNCHANGED <<s_class, s_pool, s_alg, s_pick, s_other,
                   teamVars, orderVars, draftVars>>

\* algorithm.draft_player(team) / algorithm.draft_player(team,
\* picks_until_next): the returned player, and its name added to the
\* instance's drafted set; the team is only asked for its needs and its bye
\* weeks, and no other instance shares the set
CallDraftPlayer ==
    /\ Callable
    /\ \E t \in StrategyTeams(s_pool),
          picks_until_next \in IF s_class = "Regret"
                               THEN PicksUntilNextArgs ELSE {0} :
          \E returned \in DraftPlayerResults(s_class, s_alg, t,
                                             picks_until_next) :
             /\ s_arg' = [NoArg EXCEPT !.picks_until_next = picks_until_next]
             /\ s_team' = t
             /\ s_team_after' = t
             /\ s_pick' = returned
             /\ s_alg' = AfterDraftPlayer(s_class, s_alg, returned)
    /\ s_call' = "draft_player"
    /\ s_before' = s_alg
    /\ UNCHANGED <<s_class, s_pool, s_value, s_other,
                   teamVars, orderVars, draftVars>>

NextStrategy ==
    \/ SyncDrafted
    \/ CallScarcity
    \/ CallDropoff
    \/ CallRegretScore
    \/ CallDraftPlayer

SpecStrategy == InitStrategy /\ [][NextStrategy]_vars

----------------------------------------------------------------------------
(* properties of the strategies *)

\* team.get_needs() as the last call saw it
NeedsAtCall == get_needs(s_team)

\* pool indices of the players whose name was not drafted at the call
Undrafted ==
    {i \in 1..Len(s_pool) : s_pool[i].name \notin s_before.drafted_players}

\* pool indices of the undrafted players that fill a need of the team
Matching ==
    {i \in Undrafted : FillsNeed(s_pool[i].position, NeedsAtCall)}

\* i comes first among the indices I by ADP rank, then by pool position
AdpFirst(I, i) ==
    /\ i \in I
    /\ \A j \in I : \/ s_pool[i].adp_rank < s_pool[j].adp_rank
                    \/ /\ s_pool[i].adp_rank = s_pool[j].adp_rank
                       /\ i <= j

GreedyCalled == s_call = "draft_player" /\ s_class = "Greedy"

\* the case of C11: a freshly constructed Greedy instance, a pool of roster
\* positions, an empty team
FreshGreedyCall ==
    /\ GreedyCalled
    /\ s_before = GreedyInit(s_pool)
    /\ s_team = NewTeam(1)
    /\ s_pool # <<>>
    /\ \A i \in 1..Len(s_pool) : s_pool[i].position \in CorePositions

\* C11: a fresh GreedyDraftAlgorithm over a non-empty pool of QB/RB/WR/TE/K
\* players, in any input order, asked to draft for a team with no slot
\* filled, returns a player of the lowest ADP rank in the pool and adds its
\* name to the instance's drafted set.
C11_FirstPickLowestADP ==
    FreshGreedyCall =>
        /\ \E i \in 1..Len(s_pool) : s_pick = StrategyCopy(s_pool[i])
        /\ \A i \in 1..Len(s_pool) : s_pick.adp_rank <= s_pool[i].adp_rank
        /\ s_alg.drafted_players = {s_pick.name}

C11_Witness ==
    /\ FreshGreedyCall
    /\ s_pool[1].adp_rank > s_pick.adp_rank
    /\ s_pick.name \in s_alg.drafted_players

\* C12: when some undrafted player fills a direct need, or is RB/WR/TE while
\* FLEX is a need, Greedy draft_player returns the first such player by ADP
\* rank, equal ranks in pool input order; it never returns a player of a
\* filled position then.
C12_FirstNeedMatch ==
    (GreedyCalled /\ Matching # {}) =>
        /\ \E i \in Matching : AdpFirst(Matching, i)
                               /\ s_pick = StrategyCopy(s_pool[i])
        /\ FillsNeed(s_pick.position, NeedsAtCall)

C12_Witness ==
    /\ GreedyCalled
    /\ Matching # {}
    /\ "QB" \notin Range(NeedsAtCall)
    /\ \E i \in Undrafted : /\ s_pool[i].position = "QB"
                            /\ s_pool[i].adp_rank < s_pick.adp_rank

C12_WitnessTie ==
    /\ GreedyCalled
    /\ \E i, j \in Matching : /\ i < j
                              /\ s_pool[i].adp_rank = s_pool[j].adp_rank
                              /\ s_pick = StrategyCopy(s_pool[i])
                              /\ s_pick # StrategyCopy(s_pool[j])

\* pool indices of the undrafted players at the position asked about
UndraftedAt(position) ==
    {i \in Undrafted : s_pool[i].position = position}

\* C14: calculate_positional_scarcity returns 0.0 when no undrafted player
\* remains at the position, 1.0 when exactly one remains, and otherwise a
\* value from 0.1 to 1.0, whatever the drafted set and the position.
C14_ScarcityRange ==
    s_call = "calculate_positional_scarcity" =>
        LET n == Cardinality(UndraftedAt(s_arg.position))
        IN  /\ n = 0 => s_value[1] = 0
            /\ n = 1 => s_value[1] = s_value[2]
            /\ n > 1 => /\ 10 * s_value[1] >= s_value[2]
                        /\ s_value[1] <= s_value[2]
            /\ s_value[2] > 0

C14_Witness ==
    /\ s_call = "calculate_positional_scarcity"
    /\ Cardinality(UndraftedAt(s_arg.position)) > 10
    /\ s_before.drafted_players # {}
    /\ s_value = <<1, 10>>

C14_WitnessNone ==
    /\ s_call = "calculate_positional_scarcity"
    /\ \E i \in 1..Len(s_pool) : s_pool[i].position = s_arg.position
    /\ UndraftedAt(s_arg.position) = {}
    /\ s_value[1] = 0

C14_WitnessOne ==
    /\ s_call = "calculate_positional_scarcity"
    /\ Cardinality(UndraftedAt(s_arg.position)) = 1
    /\ s_value[1] = s_value[2]

C14_WitnessBetween ==
    /\ s_call = "calculate_positional_scarcity"
    /\ 10 * s_value[1] > s_value[2]
    /\ s_value[1] < s_value[2]

\* C15: calculate_regret_score returns a value from 0 to 1.0 for every player
\* of the pool (auction values are not negative), team, drafted set and
\* picks_until_next.
C15_ScoreRange ==
    (s_call = "calculate_regret_score" /\ s_arg.player.auction_value >= 0) =>
        /\ s_value[2] > 0
        /\ s_value[1] >= 0
        /\ s_value[1] <= s_value[2]

C15_Witness ==
    /\ s_call = "calculate_regret_score"
    /\ s_arg.player.bye_week \in TeamByeWeeks(s_team)
    /\ s_arg.picks_until_next < 1
    /\ s_value[1] = 0

C15_WitnessOne ==
    /\ s_call = "calculate_regret_score"
    /\ s_arg.picks_until_next > 19
    /\ s_value[1] = s_value[2]

\* C16: when the team has no needs, draft_player of the Greedy and of the
\* Regret strategy returns no pick and leaves the drafted set unchanged,
\* even if undrafted players remain.
C16_NoNeedsNoPick ==
    (s_call = "draft_player" /\ NeedsAtCall = <<>>) =>
        /\ s_pick = NoPlayer
        /\ s_alg.drafted_players = s_before.drafted_players
        /\ s_alg = s_before

C16_Witness ==
    /\ s_call = "draft_player"
    /\ s_class = "Regret"
    /\ NeedsAtCall = <<>>
    /\ Undrafted # {}
    /\ s_before.drafted_players # {}
    /\ s_pick = NoPlayer

C16_WitnessGreedy ==
    /\ GreedyCalled
    /\ NeedsAtCall = <<>>
    /\ Undrafted # {}
    /\ s_pick = NoPlayer

RegretCalled == s_call = "draft_player" /\ s_class = "Regret"

\* the regret score of pool entry i as the last draft_player call computed it
ScoreAtCall(i) ==
    calculate_regret_score(s_before, StrategyCopy(s_pool[i]), s_team,
                           s_arg.picks_until_next)

\* i has the highest score among the indices I, and is the earliest such
ScoreFirst(I, i) ==
    /\ i \in I
    /\ \A j \in I : FracLE(ScoreAtCall(j), ScoreAtCall(i))
    /\ \A j \in I : j < i => FracLT(ScoreAtCall(j), ScoreAtCall(i))

\* C19: for a team with a need, Regret draft_player returns the player of
\* maximum regret score among the undrafted players that fill a need (all
\* undrafted players when none fills a need), the earliest of the pool among
\* equal maxima, and adds the returned player's name to the drafted set.
C19_MaxRegretPick ==
    (RegretCalled /\ NeedsAtCall # <<>> /\ Undrafted # {}) =>
        LET I == IF Matching # {} THEN Matching ELSE Undrafted
        IN  /\ \E i \in I : ScoreFirst(I, i)
                            /\ s_pick = StrategyCopy(s_pool[i])
            /\ s_alg.drafted_players =
                   s_before.drafted_players \cup {s_pick.name}

C19_Witness ==
    /\ RegretCalled
    /\ Matching # {}
    /\ \E i, j \in Matching :
          /\ i < j
          /\ s_pick = StrategyCopy(s_pool[j])
          /\ s_pick # StrategyCopy(s_pool[i])
          /\ FracLT(ScoreAtCall(i), ScoreAtCall(j))
    /\ s_pick.name \notin s_before.drafted_players
    /\ s_pick.name \in s_alg.drafted_players

C19_WitnessTie ==
    /\ RegretCalled
    /\ \E i, j \in Matching :
          /\ i < j
          /\ s_pick = StrategyCopy(s_pool[i])
          /\ s_pool[i].name # s_pool[j].name
          /\ FracEQ(ScoreAtCall(i), ScoreAtCall(j))

C19_WitnessFallback ==
    /\ RegretCalled
    /\ NeedsAtCall # <<>>
    /\ Matching = {}
    /\ Cardinality(Undrafted) > 1
    /\ s_pick # NoPlayer
    /\ ~FillsNeed(s_pick.position, NeedsAtCall)

\* C20: when the team has needs and no undrafted player matches a need or
\* FLEX, Greedy draft_player returns the lowest-ADP undrafted player of any
\* position and marks it drafted; with needs, it returns no pick only when
\* every name of the pool is in the drafted set.
C20_GreedyFallback ==
    (GreedyCalled /\ NeedsAtCall # <<>>) =>
        /\ (Matching = {} /\ Undrafted # {}) =>
               /\ \E i \in Undrafted : AdpFirst(Undrafted, i)
                                       /\ s_pick = StrategyCopy(s_pool[i])
               /\ s_alg.drafted_players =
                      s_before.drafted_players \cup {s_pick.name}
        /\ s_pick = NoPlayer =>
               \A i \in 1..Len(s_pool) :
                   s_pool[i].name \in s_before.drafted_players

C20_Witness ==
    /\ GreedyCalled
    /\ NeedsAtCall # <<>>
    /\ Matching = {}
    /\ Cardinality(Undrafted) > 1
    /\ s_pick # NoPlayer
    /\ ~FillsNeed(s_pick.position, NeedsAtCall)
    /\ s_pick.name \in s_alg.drafted_players

C20_WitnessNoPick ==
    /\ GreedyCalled
    /\ NeedsAtCall # <<>>
    /\ s_pool # <<>>
    /\ s_pick = NoPlayer

\* the highest auction value among the undrafted players at the position
\* asked about, and the highest among the others
BestUndrafted ==
    CHOOSE i \in UndraftedAt(s_arg.position) :
        \A j \in UndraftedAt(s_arg.position) :
            s_pool[j].auction_value <= s_pool[i].auction_value

SecondUndrafted ==
    CHOOSE i \in UndraftedAt(s_arg.position) \ {BestUndrafted} :
        \A j \in UndraftedAt(s_arg.position) \ {BestUndrafted} :
            s_pool[j].auction_value <= s_pool[i].auction_value

DropoffCalled == s_call = "calculate_value_dropoff"

\* two undrafted players at the position, the best of positive value
DropoffRatioCase ==
    /\ DropoffCalled
    /\ Cardinality(UndraftedAt(s_arg.position)) >= 2
    /\ s_pool[BestUndrafted].auction_value > 0

\* (best - second_best) / best
DropoffRatio ==
    << s_pool[BestUndrafted].auction_value
           - s_pool[SecondUndrafted].auction_value,
       s_pool[BestUndrafted].auction_value >>

\* C25 as stated: calculate_value_dropoff returns 0 with fewer than two
\* undrafted players at the position or a best value that is not positive,
\* otherwise (best - second_best) / best, and the result lies in [0, 1].
C25_DropoffRatio ==
    /\ (DropoffCalled /\ ~DropoffRatioCase) => FracEQ(s_value, <<0, 1>>)
    /\ DropoffRatioCase => FracEQ(s_value, DropoffRatio)
    /\ DropoffCalled =>
           FracLE(<<0, 1>>, s_value) /\ FracLE(s_value, <<1, 1>>)

\* C25, amended: calculate_value_dropoff returns 0 with fewer than two
\* undrafted players at the position or a best value that is not positive,
\* otherwise the smaller of (best - second_best) / best and 1, which is the
\* ratio itself unless second_best is negative; the result lies in [0, 1].
C25_DropoffCapped ==
    /\ (DropoffCalled /\ ~DropoffRatioCase) => FracEQ(s_value, <<0, 1>>)
    /\ DropoffRatioCase =>
           /\ FracLE(DropoffRatio, <<1, 1>>) => FracEQ(s_value, DropoffRatio)
           /\ FracLE(<<1, 1>>, DropoffRatio) => FracEQ(s_value, <<1, 1>>)
           /\ s_pool[SecondUndrafted].auction_value >= 0 =>
                  FracEQ(s_value, DropoffRatio)
    /\ DropoffCalled =>
           FracLE(<<0, 1>>, s_value) /\ FracLE(s_value, <<1, 1>>)

C25_Witness ==
    /\ DropoffRatioCase
    /\ s_pool[SecondUndrafted].auction_value < 0
    /\ FracEQ(s_value, <<1, 1>>)

C25_WitnessRatio ==
    /\ DropoffRatioCase
    /\ s_pool[SecondUndrafted].auction_value > 0
    /\ FracLT(<<0, 1>>, s_value)
    /\ FracLT(s_value, <<1, 1>>)

C25_WitnessNotPositive ==
    /\ DropoffCalled
    /\ Cardinality(UndraftedAt(s_arg.position)) >= 2
    /\ s_pool[BestUndrafted].auction_value < 0
    /\ s_value = <<0, 1>>

\* a draft_player call that returns a player
DraftPlayerReturns == s_call' = "draft_player" /\ s_pick' # NoPlayer

\* C26: a draft_player call that returns a player adds exactly that player's
\* name to the instance's own drafted set and changes nothing else: not the
\* team, not the instance's pool contents and order, not the original pool,
\* not the other instance's drafted set.
C26_DraftPlayerFrame ==
    [][DraftPlayerReturns =>
           /\ s_pick'.name \notin s_alg.drafted_players
           /\ s_alg' = [s_alg EXCEPT
                           !.drafted_players = @ \cup {s_pick'.name}]
           /\ s_team_after' = s_team'
           /\ s_pool' = s_pool
           /\ s_other' = s_other]_vars

C26_Witness ==
    /\ s_call = "draft_player"
    /\ s_pick # NoPlayer
    /\ s_before.drafted_players # {}
    /\ s_other.drafted_players = s_before.drafted_players
    /\ s_alg.drafted_players = s_before.drafted_players \cup {s_pick.name}
    /\ s_pick.name \notin s_other.drafted_players
    /\ s_team_after.draft_picks # <<>>

C26_WitnessRegret ==
    /\ s_call = "draft_player"
    /\ s_class = "Regret"
    /\ s_pick # NoPlayer
    /\ s_alg.drafted_players = s_before.drafted_players \cup {s_pick.name}
    /\ s_alg.all_players = s_other.all_players

====
